---- MODULE Spec2Model ----
(***************************************************************************)
(* The metric registry and sampling pipeline of oracle.monitor:            *)
(* metrics/base_metric.py (BaseMetric, MetricRegistry) and                 *)
(* metrics/registry.py (the module-level registry, its discovery and       *)
(* reset).                                                                 *)
(*                                                                         *)
(* Python objects live on two heaps: heap (metric instances) and regs      *)
(* (MetricRegistry objects); an object's identity is its index.  A Python  *)
(* dict is a sequence of [k, v] entries in insertion order.                *)
(***************************************************************************)
EXTENDS Integers, Sequences, FiniteSets, TLC

VARIABLES
    heap,         \* metric instances: [name, category, enabled]
    regs,         \* MetricRegistry objects: [metrics, categories]
    _registry,    \* registry.py's module global: an index of regs, or None
    registry,     \* the caller's handle: what its last get_registry returned
    results,      \* what the last collect_all returned
    trace,        \* the collect invocations of the last collect_all
    errorLog,     \* what the last collect_all wrote through logging.error
    logs,         \* per metric class, the records of its JSONL channel
    tables,       \* per metric class, the rows of its history table
    clock,        \* the wall clock datetime.now() reads
    calls,        \* how many logging or storing calls were made
    schema,       \* the classes whose history table exists in the store
    server,       \* the monitored database: the changes made to it so far
    conns,        \* connections to the history store opened and not closed
    session_state, \* st.session_state of the dashboard's browser session
    op            \* the last call: its name, arguments and outcome

vars == <<heap, regs, _registry, registry, results, trace, errorLog, logs,
          tables, clock, calls, schema, server, conns,
          session_state, op>>

----------------------------------------------------------------------------
(* Bounds of the model. *)

\* how many classes of the fixed discovery list are instantiated
NumClasses == 3
\* how many MetricRegistry objects are ever built
MaxBuilds == 2
\* how many logging or storing calls one behaviour makes
MaxCalls == 1
\* how many records a list-shaped payload may hold
MaxRecs == 1
\* how many metrics are registered on a bare MetricRegistry
MaxRegister == 4
\* how many store_data calls one behaviour of SpecStore makes
MaxStores == 2
\* how many sampling passes one behaviour of SpecDriver makes
MaxPasses == 3

----------------------------------------------------------------------------
(* Python values. *)

None == 0

\* the session state a browser session of the V2 dashboard starts with
SessionInit ==
    [connection |-> None, monitoring_active |-> FALSE,
     force_collect |-> FALSE]

\* a payload: None, or a dict seen through its top-level keys and the number
\* of records under its list key
NonePayload == [kind |-> "None", keys |-> {}, n |-> 0]

EmptyDict == [kind |-> "dict", keys |-> {}, n |-> 0]

\* a dict key that is neither str, int, float, bool nor None (a tuple):
\* json.dumps raises TypeError on a dict that has one
TupleKey == "(0, 1)"

\* json.dumps(log_entry, default=str) returns
Serialisable(data) == TupleKey \notin data.keys

\* a truth test that only rules out None: "if data is not None:"
TruthyNotNone(data) == data.kind = "dict"

\* Python truthiness of an Optional[Dict]: "if data:"
Truthy(data) == data.kind = "dict" /\ data.keys # {}

\* dict: insertion-ordered [k, v] entries with distinct keys
DictKeys(d) == {d[i].k : i \in 1..Len(d)}

DictHas(d, k) == k \in DictKeys(d)

DictGet(d, k, default) ==
    IF DictHas(d, k)
    THEN (d[CHOOSE i \in 1..Len(d) : d[i].k = k]).v
    ELSE default

\* d[k] = v: an existing key keeps its position, a new one goes last
DictSet(d, k, v) ==
    IF DictHas(d, k)
    THEN [i \in 1..Len(d) |-> IF d[i].k = k THEN [k |-> k, v |-> v] ELSE d[i]]
    ELSE Append(d, [k |-> k, v |-> v])

\* list(d.values())
DictValues(d) == [i \in 1..Len(d) |-> d[i].v]

RECURSIVE SelectSeqIdx(_, _, _)
\* [s[i] for i in order if keep[i]], from position i on
SelectSeqIdx(s, keep, i) ==
    IF i > Len(s) THEN <<>>
    ELSE (IF keep[i] THEN <<s[i]>> ELSE <<>>) \o SelectSeqIdx(s, keep, i + 1)

----------------------------------------------------------------------------
(* The concrete metric classes. *)

\* the hard-coded list of _auto_discover_metrics, in its order
AllClasses ==
    << "SessionOverviewMetric", "TopSessionsMetric", "BlockingSessionsMetric",
       "TablespaceUsageMetric", "WaitEventsMetric", "TempUsageMetric",
       "UndoMetricsMetric", "RedoMetricsMetric", "PlanChurnMetric",
       "IOSessionsMetric", "HostMetricsMetric", "ResourceLimitsMetric" >>

\* the classes the model instantiates: the first NumClasses of the list
MetricClasses == SubSeq(AllClasses, 1, NumClasses)

ClassNames == {MetricClasses[i] : i \in 1..Len(MetricClasses)}

\* each class's _get_category
CategoryOf(cls) ==
    CASE cls \in {"SessionOverviewMetric", "TopSessionsMetric",
                  "BlockingSessionsMetric"} -> "sessions"
      [] cls \in {"TablespaceUsageMetric", "TempUsageMetric",
                  "UndoMetricsMetric"} -> "storage"
      [] cls \in {"WaitEventsMetric", "RedoMetricsMetric", "PlanChurnMetric",
                  "IOSessionsMetric"} -> "performance"
      [] cls \in {"HostMetricsMetric", "ResourceLimitsMetric"} -> "system"

\* the key under which a class's _store_data_impl looks for its records;
\* "" for the classes that store the payload itself as one row
PrimaryKey(cls) ==
    CASE cls = "TopSessionsMetric" -> "sessions"
      [] cls = "BlockingSessionsMetric" -> "blocking_sessions"
      [] cls = "TablespaceUsageMetric" -> "tablespaces"
      [] cls = "WaitEventsMetric" -> "wait_events"
      [] cls = "TempUsageMetric" -> "temp_usage"
      [] cls = "PlanChurnMetric" -> "plans"
      [] cls = "IOSessionsMetric" -> "io_sessions"
      [] cls = "ResourceLimitsMetric" -> "limits"
      [] OTHER -> ""

\* BaseMetric.__init__: name is the class name, enabled starts True
BaseMetricInit(cls) ==
    [name |-> cls, category |-> CategoryOf(cls), enabled |-> TRUE]

----------------------------------------------------------------------------
(* MetricRegistry. *)

MetricRegistryInit == [metrics |-> <<>>, categories |-> <<>>]

\* a register that keeps the first metric of a name: setdefault(name, metric)
registerFirstWins(reg, h, m) ==
    [metrics |-> IF DictHas(reg.metrics, h[m].name) THEN reg.metrics
                 ELSE DictSet(reg.metrics, h[m].name, m),
     categories |-> DictSet(reg.categories, h[m].category,
                       Append(DictGet(reg.categories, h[m].category, <<>>), m))]

\* a register that appends to the bucket only a metric it does not hold yet
registerIdempotent(reg, h, m) ==
    LET bucket == DictGet(reg.categories, h[m].category, <<>>)
    IN [metrics |-> DictSet(reg.metrics, h[m].name, m),
        categories |-> DictSet(reg.categories, h[m].category,
                          IF \E i \in 1..Len(bucket) : bucket[i] = m
                          THEN bucket ELSE Append(bucket, m))]

\* MetricRegistry.register(metric), metric being heap object m of heap h
register(reg, h, m) ==
    [metrics |-> DictSet(reg.metrics, h[m].name, m),
     categories |-> DictSet(reg.categories, h[m].category,
                       Append(DictGet(reg.categories, h[m].category, <<>>), m))]

get_metric(reg, name) == DictGet(reg.metrics, name, None)

get_all_metrics(reg) == DictValues(reg.metrics)

get_metrics_by_category(reg, category) ==
    DictGet(reg.categories, category, <<>>)

\* a lookup that creates the bucket it misses:
\* self.categories.setdefault(category, [])
get_metrics_by_categorySetdefault(reg, category) ==
    [reg |-> IF DictHas(reg.categories, category) THEN reg
             ELSE [reg EXCEPT !.categories = DictSet(@, category, <<>>)],
     ret |-> DictGet(reg.categories, category, <<>>),
     raised |-> FALSE]

\* a call of get_metrics_by_category: the registry it leaves, what it
\* returns, whether it raised
get_metrics_by_categoryCall(reg, category) ==
    [reg |-> reg,
     ret |-> get_metrics_by_category(reg, category),
     raised |-> FALSE]

\* a get_enabled_metrics that forgets the enabled filter
get_enabled_metricsUnfiltered(reg, h) == DictValues(reg.metrics)

\* a get_enabled_metrics that hands the enabled metrics out last-first
get_enabled_metricsReversed(reg, h) ==
    LET s == SelectSeqIdx(DictValues(reg.metrics),
                 [i \in 1..Len(reg.metrics) |-> h[reg.metrics[i].v].enabled], 1)
    IN [i \in 1..Len(s) |-> s[Len(s) + 1 - i]]

\* [m for m in self.metrics.values() if m.enabled]
get_enabled_metrics(reg, h) ==
    SelectSeqIdx(DictValues(reg.metrics),
                 [i \in 1..Len(reg.metrics) |-> h[reg.metrics[i].v].enabled], 1)

----------------------------------------------------------------------------
(* What a metric's collect may do, seen from the registry. *)

\* the top-level keys of the dict a class's collect builds
PayloadKeys(cls) ==
    CASE cls = "SessionOverviewMetric" ->
            {"total_sessions", "active_sessions", "inactive_sessions",
             "blocked_sessions", "logical_reads_mb", "physical_reads_mb",
             "cpu_seconds"}
      [] cls = "UndoMetricsMetric" ->
            {"undo_retention", "active_transactions", "undo_mb_active",
             "undo_mb_total"}
      [] cls = "RedoMetricsMetric" ->
            {"redo_size", "redo_writes", "redo_write_time"}
      [] cls = "HostMetricsMetric" ->
            {"cpu_percent", "cpu_count", "process_cpu_percent",
             "memory_percent", "memory_used_gb", "memory_total_gb",
             "swap_percent", "load_avg", "process_memory_mb"}
      [] cls = "ResourceLimitsMetric" -> {"limits"}
      [] OTHER -> {PrimaryKey(cls), "count"}

\* the non-empty dicts a class's collect may return
PayloadsOf(cls) ==
    IF PrimaryKey(cls) = ""
    THEN {[kind |-> "dict", keys |-> PayloadKeys(cls), n |-> 1]}
    ELSE {[kind |-> "dict", keys |-> PayloadKeys(cls), n |-> k] :
              k \in 0..MaxRecs}

\* BaseMetric.collect is abstract: to the registry a call either raises or
\* returns an Optional[Dict], of which the registry reads the truth value
\* only
OutcomeKinds == {"raise", "None", "empty", "data"}

OutcomeOf(cls, kind) ==
    CASE kind = "raise" -> [raises |-> TRUE, data |-> NonePayload]
      [] kind = "None" -> [raises |-> FALSE, data |-> NonePayload]
      [] kind = "empty" -> [raises |-> FALSE, data |-> EmptyDict]
      [] kind = "data" ->
            [raises |-> FALSE,
             data |-> [kind |-> "dict", keys |-> PayloadKeys(cls), n |-> 1]]

\* a statement over the connection to the monitored database
Statement(verb, object) == [verb |-> verb, object |-> object]

\* a metric that also purges what it has read
StatementsOfPurging(cls) ==
    <<Statement("SELECT", "v$session"), Statement("DELETE", "v$session")>>

\* the statements a class's collect executes on the shared connection, in
\* order: the _get_statistic_id lookups, then the class's query
StatementsOf(cls) ==
    CASE cls = "SessionOverviewMetric" ->
            <<Statement("SELECT", "v$statname"),
              Statement("SELECT", "v$statname"),
              Statement("SELECT", "v$statname"),
              Statement("SELECT", "v$session")>>
      [] cls = "TopSessionsMetric" ->
            <<Statement("SELECT", "v$statname"),
              Statement("SELECT", "v$statname"),
              Statement("SELECT", "v$session")>>
      [] cls = "BlockingSessionsMetric" -> <<Statement("SELECT", "v$session")>>
      [] cls = "TablespaceUsageMetric" ->
            <<Statement("SELECT", "dba_tablespaces")>>
      [] cls = "WaitEventsMetric" -> <<Statement("SELECT", "v$system_event")>>
      [] cls = "TempUsageMetric" -> <<Statement("SELECT", "v$tempseg_usage")>>
      [] cls = "UndoMetricsMetric" -> <<Statement("SELECT", "dual")>>
      [] cls = "RedoMetricsMetric" -> <<Statement("SELECT", "v$sysstat")>>
      [] cls = "PlanChurnMetric" -> <<Statement("SELECT", "v$sql")>>
      [] cls = "IOSessionsMetric" -> <<Statement("SELECT", "v$session")>>
      [] cls = "ResourceLimitsMetric" ->
            <<Statement("SELECT", "v$resource_limit")>>
      [] OTHER -> <<>>

\* what went over the connection in a collect of the given outcome: nothing
\* when the call raised before its first statement, else the class's
\* statements (an oracledb.Error is caught and None returned)
Sent(cls, kind) == IF kind = "raise" THEN <<>> ELSE StatementsOf(cls)

IsQuery(statement) == statement.verb = "SELECT"

\* the monitored database after a statement: a query leaves it as it was
Execute(srv, statement) ==
    IF IsQuery(statement) THEN srv ELSE Append(srv, statement)

RECURSIVE ExecuteAll(_, _)
ExecuteAll(srv, statements) ==
    IF statements = <<>> THEN srv
    ELSE ExecuteAll(Execute(srv, Head(statements)), Tail(statements))

RECURSIVE CollectLoop(_, _, _, _)
\* the for loop of collect_all over the list ms, acc being
\* [results, errors, trace, sent] so far; kinds[m] is what m's collect
\* does, sent the statements that went over the connection
CollectLoop(ms, h, kinds, acc) ==
    IF ms = <<>> THEN acc
    ELSE LET m == Head(ms)
             out == OutcomeOf(h[m].name, kinds[m])
             called == [acc EXCEPT !.trace = Append(@, [m |-> m, out |-> out]),
                                   !.sent = @ \o Sent(h[m].name, kinds[m])]
             after ==
                 IF out.raises
                 THEN [called EXCEPT !.errors = Append(@, h[m].name)]
                 ELSE IF Truthy(out.data)
                      THEN [called EXCEPT
                                !.results = DictSet(@, h[m].name, out.data)]
                      ELSE called
         IN CollectLoop(Tail(ms), h, kinds, after)

\* a collect_all whose except clause swallows the exception unlogged
collect_allSilent(reg, h, kinds) ==
    [CollectLoop(get_enabled_metrics(reg, h), h, kinds,
                 [results |-> <<>>, errors |-> <<>>, trace |-> <<>>,
                    sent |-> <<>>])
        EXCEPT !.errors = <<>>]

\* a collect_all whose loop ends at the first collect that raises
collect_allAbort(reg, h, kinds) ==
    LET ms == get_enabled_metrics(reg, h)
        bad == {i \in 1..Len(ms) : kinds[ms[i]] = "raise"}
        cut == IF bad = {} THEN Len(ms)
               ELSE CHOOSE i \in bad : \A j \in bad : i <= j
    IN CollectLoop(SubSeq(ms, 1, cut), h, kinds,
                   [results |-> <<>>, errors |-> <<>>, trace |-> <<>>,
                    sent |-> <<>>])

\* MetricRegistry.collect_all: [results, errors, trace]
collect_all(reg, h, kinds) ==
    CollectLoop(get_enabled_metrics(reg, h), h, kinds,
                [results |-> <<>>, errors |-> <<>>, trace |-> <<>>,
                    sent |-> <<>>])

----------------------------------------------------------------------------
(* metrics/registry.py: the module-level registry. *)

RECURSIVE RegisterAll(_, _, _)
\* for metric in metrics: _registry.register(metric)
RegisterAll(reg, h, ms) ==
    IF ms = <<>> THEN reg
    ELSE RegisterAll(register(reg, h, Head(ms)), h, Tail(ms))

\* the instances the list expression of _auto_discover_metrics constructs
\* before it ends: all of them (fail = 0), or those before the one whose
\* constructor raises
Constructed(fail) ==
    [i \in 1..(IF fail = 0 THEN Len(MetricClasses) ELSE fail - 1) |->
        BaseMetricInit(MetricClasses[i])]

\* _auto_discover_metrics(log_dir) on the registry reg: [heap, reg, raised]
_auto_discover_metrics(reg, h, fail) ==
    LET h2 == h \o Constructed(fail)
        ids == [i \in 1..Len(Constructed(fail)) |-> Len(h) + i]
    IN [heap |-> h2,
        reg |-> IF fail = 0 THEN RegisterAll(reg, h2, ids) ELSE reg,
        raised |-> fail # 0]

\* get_registry(log_dir) on the module state [heap, regs, _registry]:
\* the state it leaves, and ret, the registry it returns (None: it raised)
get_registry(h, rs, global, fail) ==
    IF global = None
    THEN LET d == _auto_discover_metrics(MetricRegistryInit, h, fail)
         IN [heap |-> d.heap,
             regs |-> Append(rs, d.reg),
             global |-> Len(rs) + 1,
             raised |-> d.raised,
             ret |-> IF d.raised THEN None ELSE Len(rs) + 1]
    ELSE [heap |-> h, regs |-> rs, global |-> global, raised |-> FALSE,
          ret |-> global]

\* a reset_registry that assigns a local: the "global" statement forgotten
reset_registryLocal == _registry

\* reset_registry(): the new value of the module global
reset_registry == None

----------------------------------------------------------------------------
(* Specification Spec: sampling passes over the discovered registry. *)

Call(name) == [name |-> name, raised |-> FALSE]

\* the state after the first get_registry() returned and
\* initialize_storage(registry) created every metric's history table
Init ==
    LET g == get_registry(<<>>, <<>>, None, 0)
    IN /\ heap = g.heap
       /\ regs = g.regs
       /\ _registry = g.global
       /\ registry = g.ret
       /\ results = <<>>
       /\ trace = <<>>
       /\ errorLog = <<>>
       /\ logs = [c \in ClassNames |-> <<>>]
       /\ tables = [c \in ClassNames |-> <<>>]
       /\ clock = 1
       /\ calls = 0
       /\ schema = ClassNames
       /\ server = <<>>
       /\ conns = 0
       /\ session_state = SessionInit
       /\ op = Call("get_registry")

\* the metrics of the caller's registry
Registered == {regs[registry].metrics[i].v : i \in 1..Len(regs[registry].metrics)}

\* a toggle that takes a metric out of the name index when it disables it
SetEnabledUnregistering(m, value) ==
    /\ registry # None
    /\ m \in Registered
    /\ heap' = [heap EXCEPT ![m].enabled = value]
    /\ regs' = IF value THEN regs
               ELSE [regs EXCEPT ![registry].metrics =
                        SelectSeq(@, LAMBDA e : e.v # m)]
    /\ op' = Call("set_enabled")
    /\ UNCHANGED <<session_state,
                   _registry, registry, results, trace, errorLog, logs,
                   tables, clock, calls, schema, server, conns>>

\* metric.enabled = value, on a metric of the caller's registry
SetEnabled(m, value) ==
    /\ registry # None
    /\ m \in Registered
    /\ heap' = [heap EXCEPT ![m].enabled = value]
    /\ op' = Call("set_enabled")
    /\ UNCHANGED <<session_state,
                   regs, _registry, registry, results, trace, errorLog, logs,
                   tables, clock, calls,
                   schema,
                   server, conns>>

\* results = registry.collect_all(connection)
CollectAll(kinds) ==
    /\ registry # None
    /\ LET r == collect_all(regs[registry], heap, kinds)
       IN /\ results' = r.results
          /\ trace' = r.trace
          /\ errorLog' = r.errors
          /\ server' = ExecuteAll(server, r.sent)
          /\ op' = [name |-> "collect_all", raised |-> FALSE, kinds |-> kinds,
                    sent |-> r.sent]
    /\ UNCHANGED <<session_state,
                   heap, regs, _registry, registry, logs, tables, clock, calls,
                   schema, conns>>

Next ==
    \/ \E m \in 1..Len(heap), value \in BOOLEAN : SetEnabled(m, value)
    \/ \E kinds \in [Registered -> OutcomeKinds] : CollectAll(kinds)

Spec == Init /\ [][Next]_vars

----------------------------------------------------------------------------
(* Properties of collect_all, under Spec. *)

\* a payload that is neither None nor an empty mapping
NonEmpty(data) == data.kind = "dict" /\ data.keys # {}

\* the registered metrics whose flag is set; after a collect_all these are
\* the ones that were enabled when the call started
EnabledSet == {m \in Registered : heap[m].enabled}

Collected == op.name = "collect_all"

\* the metrics on which the last collect_all invoked collect, in order
Invoked == [i \in 1..Len(trace) |-> trace[i].m]

TimesInvoked(m) == Cardinality({i \in 1..Len(trace) : trace[i].m = m})

\* the last collect_all ran with exactly one enabled metric raising (f) and
\* every other enabled metric returning a non-empty payload
OneRaises(f) ==
    /\ Collected
    /\ f \in EnabledSet
    /\ op.kinds[f] = "raise"
    /\ \A m \in EnabledSet \ {f} : op.kinds[m] = "data"

\* C1: with N enabled metrics of which exactly one raises and the others
\* return non-empty payloads, collect_all returns exactly the N-1 names of
\* the succeeding metrics, each with its own payload, and logs one error.
C1_OneFailureCostsOneEntry ==
    \A f \in Registered :
        OneRaises(f) =>
            /\ Len(results) = Cardinality(EnabledSet) - 1
            /\ DictKeys(results) = {heap[m].name : m \in EnabledSet \ {f}}
            /\ \A m \in EnabledSet \ {f} :
                   DictGet(results, heap[m].name, NonePayload)
                       = OutcomeOf(heap[m].name, "data").data
            /\ Len(errorLog) = 1

\* all metrics enabled, the second one raised, two entries came back
C1_Witness ==
    /\ Cardinality(EnabledSet) = NumClasses
    /\ \E f \in Registered :
           /\ OneRaises(f)
           /\ heap[f].name = MetricClasses[2]
    /\ Len(results) = NumClasses - 1
    /\ Len(errorLog) = 1

\* the names of the metrics whose collect raised in the last collect_all,
\* in call order
RECURSIVE RaisedNames(_)
RaisedNames(tr) ==
    IF tr = <<>> THEN <<>>
    ELSE (IF Head(tr).out.raises THEN <<heap[Head(tr).m].name>> ELSE <<>>)
         \o RaisedNames(Tail(tr))

\* C2: one collect_all invokes collect exactly once on every metric enabled
\* at its start, whatever an earlier collect raised; each exception is
\* logged as an error under its metric's name and collect_all returns.
C2_EveryEnabledMetricCollectedOnce ==
    Collected =>
        /\ \A m \in EnabledSet : TimesInvoked(m) = 1
        /\ \A i \in 1..Len(trace) :
               trace[i].out = OutcomeOf(heap[trace[i].m].name,
                                        op.kinds[trace[i].m])
        /\ errorLog = RaisedNames(trace)
        /\ \A m \in EnabledSet :
               op.kinds[m] = "raise" =>
                   \E i \in 1..Len(errorLog) : errorLog[i] = heap[m].name
        /\ ~op.raised

\* the first metric raised, and the metrics after it were still collected
C2_Witness ==
    /\ Collected
    /\ Cardinality(EnabledSet) = NumClasses
    /\ Len(trace) = NumClasses
    /\ trace[1].out.raises
    /\ trace[2].out.raises
    /\ ~trace[NumClasses].out.raises
    /\ Len(errorLog) = 2

\* C3: the mapping collect_all returns has no key for a metric whose collect
\* returned None or an empty mapping, and every value in it is a non-empty
\* payload that the metric of that name returned in this call.
C3_OnlyNonEmptyPayloads ==
    Collected =>
        /\ \A i \in 1..Len(trace) :
               (~trace[i].out.raises /\ ~NonEmpty(trace[i].out.data))
                   => heap[trace[i].m].name \notin DictKeys(results)
        /\ \A m \in EnabledSet :
               op.kinds[m] \in {"None", "empty"}
                   => heap[m].name \notin DictKeys(results)
        /\ \A e \in 1..Len(results) :
               /\ NonEmpty(results[e].v)
               /\ \E i \in 1..Len(trace) :
                      /\ heap[trace[i].m].name = results[e].k
                      /\ ~trace[i].out.raises
                      /\ trace[i].out.data = results[e].v

\* one metric returned None, one an empty mapping, and only the third is in
\* the result
C3_Witness ==
    /\ Collected
    /\ \E a, b, c \in EnabledSet :
           /\ op.kinds[a] = "None"
           /\ op.kinds[b] = "empty"
           /\ op.kinds[c] = "data"
           /\ DictKeys(results) = {heap[c].name}

\* C4: collect_all never invokes collect on a metric whose enabled flag is
\* false at the time of the call, and its result has no key for it.
C4_DisabledMetricsNotCollected ==
    Collected =>
        \A m \in Registered :
            ~heap[m].enabled =>
                /\ TimesInvoked(m) = 0
                /\ heap[m].name \notin DictKeys(results)

\* a disabled metric whose collect would have returned data was left out,
\* while an enabled one was collected
C4_Witness ==
    /\ Collected
    /\ \E m \in Registered :
           /\ ~heap[m].enabled
           /\ op.kinds[m] = "data"
           /\ TimesInvoked(m) = 0
    /\ Len(results) >= 1

\* the place of metric m's class in the list _auto_discover_metrics
\* registers from, i.e. when m was registered
RegistrationIndex(m) ==
    CHOOSE i \in 1..Len(MetricClasses) : MetricClasses[i] = heap[m].name

\* C11: within one collect_all call the enabled metrics' collect methods
\* are invoked strictly one after another in the order in which the
\* metrics were registered.
C11_CollectedInRegistrationOrder ==
    Collected =>
        \A i, j \in 1..Len(trace) :
            i < j => RegistrationIndex(trace[i].m) < RegistrationIndex(trace[j].m)

\* the metric registered second is disabled: the first was invoked, then
\* the third
C11_Witness ==
    /\ Collected
    /\ Len(trace) = 2
    /\ RegistrationIndex(trace[1].m) = 1
    /\ RegistrationIndex(trace[2].m) = 3
    /\ \E m \in Registered : RegistrationIndex(m) = 2 /\ ~heap[m].enabled

----------------------------------------------------------------------------
(* Specification SpecLifecycle: get_registry and reset_registry. *)

InitLifecycle ==
    /\ heap = <<>>
    /\ regs = <<>>
    /\ _registry = None
    /\ registry = None
    /\ results = <<>>
    /\ trace = <<>>
    /\ errorLog = <<>>
    /\ logs = [c \in ClassNames |-> <<>>]
    /\ tables = [c \in ClassNames |-> <<>>]
    /\ clock = 1
    /\ calls = 0
    /\ schema = {}
    /\ server = <<>>
    /\ conns = 0
    /\ session_state = SessionInit
    /\ op = Call("none")

\* registry = get_registry(log_dir); fail names the class whose constructor
\* raises in this call (0: none does).  A call that raises leaves the
\* caller's variable as it was.
GetRegistry(fail) ==
    /\ _registry = None => Len(regs) < MaxBuilds
    /\ _registry # None => fail = 0
    /\ LET g == get_registry(heap, regs, _registry, fail)
       IN /\ heap' = g.heap
          /\ regs' = g.regs
          /\ _registry' = g.global
          /\ registry' = IF g.raised THEN registry ELSE g.ret
          /\ op' = [name |-> "get_registry", raised |-> g.raised]
    /\ UNCHANGED <<session_state,
                   results, trace, errorLog, logs, tables, clock, calls,
                   schema,
                   server, conns>>

ResetRegistry ==
    /\ _registry' = reset_registry
    /\ op' = Call("reset_registry")
    /\ UNCHANGED <<session_state,
                   heap, regs, registry, results, trace, errorLog, logs,
                   tables, clock, calls,
                   schema,
                   server, conns>>

NextLifecycle ==
    \/ \E fail \in 0..NumClasses : GetRegistry(fail)
    \/ ResetRegistry
    \/ \E m \in 1..Len(heap), value \in BOOLEAN : SetEnabled(m, value)

SpecLifecycle == InitLifecycle /\ [][NextLifecycle]_vars

----------------------------------------------------------------------------
(* Properties of get_registry and reset_registry, under SpecLifecycle. *)

Returned == op.name = "get_registry" /\ ~op.raised

\* how often a metric named cls sits in its category's bucket of reg
TimesInBucket(reg, cls) ==
    LET bucket == get_metrics_by_category(reg, CategoryOf(cls))
    IN Cardinality({i \in 1..Len(bucket) : heap[bucket[i]].name = cls})

\* C8: if constructing a metric class fails during discovery, no partial
\* registry becomes usable: no get_registry call, the failing one or a
\* later one without a reset_registry in between, returns a registry that
\* lacks a metric of the fixed list.
C8_NoPartialRegistryReturned ==
    Returned =>
        \A cls \in ClassNames : get_metric(regs[registry], cls) # None

\* C9: over get_registry calls with no reset_registry in between, discovery
\* runs exactly once: every call returns the module's one registry, in
\* which each class of the fixed list is registered exactly once.
C9_DiscoveryRunsExactlyOnce ==
    Returned =>
        /\ registry = _registry
        /\ \A cls \in ClassNames :
               /\ get_metric(regs[registry], cls) # None
               /\ TimesInBucket(regs[registry], cls) = 1

\* the metrics held by registry object r, through either index
MembersOf(reg) ==
    {reg.metrics[i].v : i \in 1..Len(reg.metrics)}
    \cup UNION {{reg.categories[i].v[j] : j \in 1..Len(reg.categories[i].v)} :
                   i \in 1..Len(reg.categories)}

\* C10: after reset_registry, the next get_registry returns a newly built
\* registry whose metric instances are freshly constructed and all
\* enabled: no membership and no enabled/disabled state of the discarded
\* registry carries over.
C10_ResetDiscardsRegistry ==
    [][ ( /\ op.name = "reset_registry" \/ _registry = None
          /\ op'.name = "get_registry"
          /\ ~op'.raised )
        => /\ registry' \notin 1..Len(regs)
           /\ registry' = _registry'
           /\ {heap'[m].name : m \in MembersOf(regs'[registry'])} = ClassNames
           /\ \A m \in MembersOf(regs'[registry']) :
                  /\ m \notin 1..Len(heap)
                  /\ heap'[m].enabled
           /\ \A m \in 1..Len(heap) : heap'[m] = heap[m]
           /\ \A r \in 1..Len(regs) : regs'[r] = regs[r]
      ]_vars

\* the first registry had a metric disabled, was reset, and get_registry
\* returned a second registry all of whose metrics are enabled
C10_Witness ==
    /\ Returned
    /\ registry = 2
    /\ Len(regs[1].metrics) = NumClasses
    /\ \E m \in MembersOf(regs[1]) : ~heap[m].enabled
    /\ Len(regs[2].metrics) = NumClasses
    /\ \A m \in MembersOf(regs[2]) : heap[m].enabled

----------------------------------------------------------------------------
(* Specification SpecRegister: register calls on one MetricRegistry. *)

InitRegister ==
    /\ heap = <<>>
    /\ regs = <<MetricRegistryInit>>
    /\ _registry = None
    /\ registry = 1
    /\ results = <<>>
    /\ trace = <<>>
    /\ errorLog = <<>>
    /\ logs = [c \in ClassNames |-> <<>>]
    /\ tables = [c \in ClassNames |-> <<>>]
    /\ clock = 1
    /\ calls = 0
    /\ schema = {}
    /\ server = <<>>
    /\ conns = 0
    /\ session_state = SessionInit
    /\ op = Call("none")

\* how many register calls the registry has seen: each appends one entry
\* to one bucket
TimesRegistered(reg) ==
    LET lens == [i \in 1..Len(reg.categories) |-> Len(reg.categories[i].v)]
        RECURSIVE Sum(_)
        Sum(i) == IF i = 0 THEN 0 ELSE lens[i] + Sum(i - 1)
    IN Sum(Len(lens))

\* registry.register(cls(log_dir)): a new instance of cls is registered
RegisterNew(cls) ==
    /\ TimesRegistered(regs[registry]) < MaxRegister
    /\ heap' = Append(heap, BaseMetricInit(cls))
    /\ regs' = [regs EXCEPT ![registry] = register(@, heap', Len(heap'))]
    /\ op' = [name |-> "register", raised |-> FALSE, m |-> Len(heap')]
    /\ UNCHANGED <<session_state,
                   _registry, registry, results, trace, errorLog, logs,
                   tables, clock, calls,
                   schema,
                   server, conns>>

\* registry.register(metric), metric having been registered before
RegisterAgain(m) ==
    /\ TimesRegistered(regs[registry]) < MaxRegister
    /\ regs' = [regs EXCEPT ![registry] = register(@, heap, m)]
    /\ op' = [name |-> "register", raised |-> FALSE, m |-> m]
    /\ UNCHANGED <<session_state,
                   heap, _registry, registry, results, trace, errorLog, logs,
                   tables, clock, calls,
                   schema,
                   server, conns>>

\* the categories a caller may ask for: those of the classes, and one no
\* class has
CategoryInputs ==
    {CategoryOf(AllClasses[i]) : i \in 1..Len(AllClasses)} \cup {"network"}

\* registry.get_metrics_by_category(category)
GetMetricsByCategory(category) ==
    /\ LET c == get_metrics_by_categoryCall(regs[registry], category)
       IN /\ regs' = [regs EXCEPT ![registry] = c.reg]
          /\ op' = [name |-> "get_metrics_by_category", raised |-> c.raised,
                    category |-> category, ret |-> c.ret]
    /\ UNCHANGED <<session_state,
                   heap, _registry, registry, results, trace, errorLog, logs,
                   tables, clock, calls, schema,
                   server, conns>>

NextRegister ==
    \/ \E cls \in ClassNames : RegisterNew(cls)
    \/ \E m \in 1..Len(heap) : RegisterAgain(m)
    \/ \E category \in CategoryInputs : GetMetricsByCategory(category)

SpecRegister == InitRegister /\ [][NextRegister]_vars

\* C7: after any sequence of register calls the name index holds at most
\* one metric per name, register never raises on a name collision, and
\* get_metric(name) returns the instance most recently registered under
\* that name (None if the name was never registered).
C7_LastRegistrationWins ==
    /\ [](LET reg == regs[registry]
          IN /\ Cardinality(DictKeys(reg.metrics)) = Len(reg.metrics)
             /\ \A cls \in ClassNames :
                    (\A m \in 1..Len(heap) : heap[m].name # cls)
                        => get_metric(reg, cls) = None)
    /\ [][ op'.name = "register" /\ regs' # regs =>
              /\ ~op'.raised
              /\ get_metric(regs'[registry], heap'[op'.m].name) = op'.m
              /\ \A cls \in ClassNames \ {heap'[op'.m].name} :
                     get_metric(regs'[registry], cls)
                         = get_metric(regs[registry], cls)
         ]_vars

\* C13: get_metrics_by_category with a category that has no bucket
\* returns an empty sequence, never raises, and leaves the registry
\* unchanged: no bucket is created and the name index is untouched.
C13_UnknownCategoryIsEmpty ==
    [][ ( /\ op'.name = "get_metrics_by_category"
          /\ ~DictHas(regs[registry].categories, op'.category) )
        => /\ op'.ret = <<>>
           /\ ~op'.raised
           /\ regs'[registry].categories = regs[registry].categories
           /\ regs'[registry].metrics = regs[registry].metrics
           /\ heap' = heap
      ]_vars

\* a registry with metrics in one bucket was asked for a category it has
\* no bucket for
C13_Witness ==
    /\ op.name = "get_metrics_by_category"
    /\ op.ret = <<>>
    /\ Len(regs[registry].categories) = 1
    /\ Len(regs[registry].metrics) >= 2
    /\ ~DictHas(regs[registry].categories, op.category)

\* a name was registered twice with different instances and get_metric
\* returns the second, while another name was never registered
C7_Witness ==
    /\ op.name = "register"
    /\ \E a, b \in 1..Len(heap) :
           /\ a < b
           /\ heap[a].name = heap[b].name
           /\ op.m = b
           /\ Len(regs[registry].metrics) = 1
           /\ get_metric(regs[registry], heap[b].name) = b
    /\ \E cls \in ClassNames : get_metric(regs[registry], cls) = None

----------------------------------------------------------------------------
(* Logging and storing: BaseMetric.log_data / store_data, the classes'     *)
(* _store_data_impl, MetricRegistry.log_all / store_all.  The writing      *)
(* operators take and return st = [logs, tables, clock, schema, conns,     *)
(* raised]; raised says that an exception is propagating.                  *)

\* sample identifiers: None, a string the caller chose ("" is SidStr(0)),
\* or the isoformat() of a clock reading
SidNone == [kind |-> "None", v |-> 0]

SidStr(k) == [kind |-> "str", v |-> k]

IsoFormat(time) == [kind |-> "iso", v |-> time]

\* Python truthiness of an Optional[str]
SidTruthy(sample_id) ==
    \/ sample_id.kind = "iso"
    \/ sample_id.kind = "str" /\ sample_id.v # 0

\* a log_data that returns only on None: "if data is None: return"
log_dataNoneOnly(h, m, data, sample_id, st) ==
    IF data.kind = "None" THEN st
    ELSE [st EXCEPT
             !.logs[h[m].name] =
                 Append(@, [timestamp |-> IsoFormat(st.clock),
                            metric |-> h[m].name,
                            sample_id |-> sample_id,
                            data |-> data]),
             !.clock = @ + 1]

\* a log_data whose record names the metric under the key 'metric_name'
log_dataMetricName(h, m, data, sample_id, st) ==
    IF ~Truthy(data) THEN st
    ELSE LET given == SidTruthy(sample_id)
             entry == [timestamp |-> IsoFormat(st.clock),
                       metric_name |-> h[m].name,
                       sample_id |-> IF given THEN sample_id
                                     ELSE IsoFormat(st.clock + 1),
                       data |-> data]
             read == [st EXCEPT !.clock = IF given THEN @ + 1 ELSE @ + 2]
         IN IF Serialisable(data)
            THEN [read EXCEPT !.logs[h[m].name] = Append(@, entry)]
            ELSE [read EXCEPT !.raised = TRUE]

\* BaseMetric.log_data(data, sample_id) on heap object m: one record on the
\* channel of logger "oracle_monitor_<name>"; each datetime.now() is one
\* reading of the clock
log_data(h, m, data, sample_id, st) ==
    IF ~Truthy(data) THEN st
    ELSE LET timestamp == IsoFormat(st.clock)
             given == SidTruthy(sample_id)
             entry == [timestamp |-> timestamp,
                       metric |-> h[m].name,
                       sample_id |-> IF given THEN sample_id
                                     ELSE IsoFormat(st.clock + 1),
                       data |-> data]
             read == [st EXCEPT !.clock = IF given THEN @ + 1 ELSE @ + 2]
         IN IF Serialisable(data)
            THEN [read EXCEPT !.logs[h[m].name] = Append(@, entry)]
            ELSE [read EXCEPT !.raised = TRUE]

\* an init_storage that drops the table before creating it
init_storageDropCreate(cls, st) ==
    [st EXCEPT !.schema = @ \cup {cls}, !.tables[cls] = <<>>]

\* BaseMetric.init_storage(db_path) of class cls: every class's schema and
\* indexes are CREATE ... IF NOT EXISTS statements; the connection opened
\* for them is closed after the commit
init_storage(cls, st) ==
    LET connected == [st EXCEPT !.conns = @ + 1]
    IN [connected EXCEPT !.schema = @ \cup {cls}, !.conns = @ - 1]

\* the classes whose _store_data_impl reads the clock a second time for the
\* fallback sample_id (sample_id or datetime.now().isoformat())
ReadsClockTwice ==
    {"SessionOverviewMetric", "WaitEventsMetric", "TempUsageMetric",
     "PlanChurnMetric", "IOSessionsMetric", "ResourceLimitsMetric"}

\* a _store_data_impl that inserts the sample_id as given, without fallback
_store_data_implNoFallback(cls, data, sample_id, st) ==
    IF PrimaryKey(cls) # "" /\ PrimaryKey(cls) \notin data.keys THEN st
    ELSE LET count == IF PrimaryKey(cls) = "" THEN 1 ELSE data.n
             rows == [i \in 1..count |->
                         [sample_id |-> sample_id,
                          timestamp |-> IsoFormat(st.clock),
                          rec |-> i]]
             read == [st EXCEPT !.clock = @ + 1]
             \* conn = sqlite3.connect(db_path)
             connected == [read EXCEPT !.conns = @ + 1]
         IN IF count > 0 /\ cls \notin st.schema
            THEN [connected EXCEPT !.raised = TRUE]
            ELSE \* conn.commit(); conn.close()
                 [connected EXCEPT !.tables[cls] = @ \o rows,
                                   !.conns = @ - 1]

\* <Class>._store_data_impl(db_path, data, sample_id): the rows inserted
\* into the class's history table.  The first INSERT into a table that
\* init_storage never created raises sqlite3.OperationalError, before any
\* commit and before conn.close(), which no try/finally guards.
_store_data_impl(cls, data, sample_id, st) ==
    IF PrimaryKey(cls) # "" /\ PrimaryKey(cls) \notin data.keys THEN st
    ELSE LET given == SidTruthy(sample_id)
             twice == ~given /\ cls \in ReadsClockTwice
             \* SessionOverviewMetric evaluates the fallback first
             fallback == IF cls = "SessionOverviewMetric" \/ ~twice
                         THEN st.clock ELSE st.clock + 1
             timestamp == IF cls = "SessionOverviewMetric" /\ twice
                          THEN st.clock + 1 ELSE st.clock
             sid == IF given THEN sample_id ELSE IsoFormat(fallback)
             count == IF PrimaryKey(cls) = "" THEN 1 ELSE data.n
             rows == [i \in 1..count |->
                         [sample_id |-> sid,
                          timestamp |-> IsoFormat(timestamp),
                          rec |-> i]]
             read == [st EXCEPT !.clock = IF twice THEN @ + 2 ELSE @ + 1]
             \* conn = sqlite3.connect(db_path)
             connected == [read EXCEPT !.conns = @ + 1]
         IN IF count > 0 /\ cls \notin st.schema
            THEN [connected EXCEPT !.raised = TRUE]
            ELSE \* conn.commit(); conn.close()
                 [connected EXCEPT !.tables[cls] = @ \o rows,
                                   !.conns = @ - 1]

\* a store_data that replaces the rows of the same sample: DELETE ... WHERE
\* sample_id = ? before the inserts
store_dataReplacing(h, m, data, sample_id, st) ==
    IF ~Truthy(data) THEN st
    ELSE LET cls == h[m].name
             kept == SelectSeq(st.tables[cls],
                               LAMBDA row : row.sample_id # sample_id)
         IN _store_data_impl(cls, data, sample_id,
                             [st EXCEPT !.tables[cls] = kept])

\* BaseMetric.store_data(db_path, data, sample_id) on heap object m
store_data(h, m, data, sample_id, st) ==
    IF ~Truthy(data) THEN st
    ELSE _store_data_impl(h[m].name, data, sample_id, st)

RECURSIVE LogLoopUnguarded(_, _, _, _, _)
\* a log_all that calls log_data on whatever get_metric returned
LogLoopUnguarded(entries, reg, h, sample_id, st) ==
    IF entries = <<>> \/ st.raised THEN st
    ELSE LET metric == get_metric(reg, Head(entries).k)
             after ==
                 IF metric = None
                 THEN [st EXCEPT !.raised = TRUE]
                 ELSE log_data(h, metric, Head(entries).v, sample_id, st)
         IN LogLoopUnguarded(Tail(entries), reg, h, sample_id, after)

RECURSIVE LogLoopEnabledOnly(_, _, _, _, _)
\* a log_all that skips the metrics whose enabled flag is off
LogLoopEnabledOnly(entries, reg, h, sample_id, st) ==
    IF entries = <<>> \/ st.raised THEN st
    ELSE LET metric == get_metric(reg, Head(entries).k)
             metric_data == Head(entries).v
             after ==
                 IF metric # None /\ Truthy(metric_data) /\ h[metric].enabled
                 THEN log_data(h, metric, metric_data, sample_id, st)
                 ELSE st
         IN LogLoopEnabledOnly(Tail(entries), reg, h, sample_id, after)

RECURSIVE LogLoop(_, _, _, _, _)
\* the for loop of log_all over data.items()
LogLoop(entries, reg, h, sample_id, st) ==
    IF entries = <<>> \/ st.raised THEN st
    ELSE LET metric == get_metric(reg, Head(entries).k)
             metric_data == Head(entries).v
             after ==
                 IF metric # None /\ Truthy(metric_data)
                 THEN log_data(h, metric, metric_data, sample_id, st)
                 ELSE st
         IN LogLoop(Tail(entries), reg, h, sample_id, after)

\* MetricRegistry.log_all(data, sample_id)
log_all(reg, h, data, sample_id, st) == LogLoop(data, reg, h, sample_id, st)

RECURSIVE StoreLoopCatching(_, _, _, _, _)
\* a store_all whose loop wraps store_data in try/except and goes on
StoreLoopCatching(entries, reg, h, sample_id, st) ==
    IF entries = <<>> THEN st
    ELSE LET metric == get_metric(reg, Head(entries).k)
             metric_data == Head(entries).v
             after ==
                 IF metric # None /\ Truthy(metric_data)
                 THEN [store_data(h, metric, metric_data, sample_id, st)
                          EXCEPT !.raised = FALSE]
                 ELSE st
         IN StoreLoopCatching(Tail(entries), reg, h, sample_id, after)

RECURSIVE StoreLoop(_, _, _, _, _)
\* the for loop of store_all over data.items()
StoreLoop(entries, reg, h, sample_id, st) ==
    IF entries = <<>> \/ st.raised THEN st
    ELSE LET metric == get_metric(reg, Head(entries).k)
             metric_data == Head(entries).v
             after ==
                 IF metric # None /\ Truthy(metric_data)
                 THEN store_data(h, metric, metric_data, sample_id, st)
                 ELSE st
         IN StoreLoop(Tail(entries), reg, h, sample_id, after)

\* MetricRegistry.store_all(db_path, data, sample_id)
store_all(reg, h, data, sample_id, st) ==
    StoreLoop(data, reg, h, sample_id, st)

----------------------------------------------------------------------------
(* Specification SpecWrite: log and store calls on the discovered          *)
(* registry, every history table having been created by init_storage.      *)

\* a name no metric is registered under
Unregistered == "UnregisteredMetric"

\* the names of the results mappings handed to log_all and store_all, in
\* the order of the mapping's entries: a class that stores one row, a name
\* that is not registered, a class that stores one row per record
InputNames == <<MetricClasses[1], Unregistered, MetricClasses[2]>>

\* the payloads a caller may put under a name
InputPayloads(name) ==
    {NonePayload, EmptyDict}
    \cup (IF name \in ClassNames THEN PayloadsOf(name)
          ELSE {[kind |-> "dict", keys |-> {"value"}, n |-> 1]})

RECURSIVE MappingsOver(_)
\* the mappings whose keys are some of names, in that order
MappingsOver(names) ==
    IF names = <<>> THEN {<<>>}
    ELSE LET rest == MappingsOver(Tail(names))
         IN rest \cup {<<[k |-> Head(names), v |-> d]>> \o r :
                          d \in InputPayloads(Head(names)), r \in rest}

ResultInputs == MappingsOver(InputNames)

SampleIds == {SidNone, SidStr(0), SidStr(1)}

Now == [logs |-> logs, tables |-> tables, clock |-> clock, schema |-> schema,
        conns |-> conns, raised |-> FALSE]

\* the effect st of a logging or storing call on the state, recorded as call
Write(st, call) ==
    /\ calls < MaxCalls
    /\ calls' = calls + 1
    /\ logs' = st.logs
    /\ tables' = st.tables
    /\ clock' = st.clock
    /\ op' = [call EXCEPT !.raised = st.raised]
    /\ schema' = st.schema
    /\ conns' = st.conns
    /\ UNCHANGED <<session_state,
                   heap, regs, _registry, registry, results, trace, errorLog,
                   server>>

WriteCall(name, m, data, sample_id) ==
    [name |-> name, raised |-> FALSE, m |-> m, data |-> data,
     sample_id |-> sample_id]

\* registry.log_all(results, sample_id)
LogAll(data, sample_id) ==
    Write(log_all(regs[registry], heap, data, sample_id, Now),
          WriteCall("log_all", None, data, sample_id))

\* registry.store_all(DB_PATH, results, sample_id)
StoreAll(data, sample_id) ==
    Write(store_all(regs[registry], heap, data, sample_id, Now),
          WriteCall("store_all", None, data, sample_id))

\* metric.log_data(data, sample_id)
LogData(m, data, sample_id) ==
    Write(log_data(heap, m, data, sample_id, Now),
          WriteCall("log_data", m, data, sample_id))

\* metric.store_data(DB_PATH, data, sample_id)
StoreData(m, data, sample_id) ==
    Write(store_data(heap, m, data, sample_id, Now),
          WriteCall("store_data", m, data, sample_id))

NextWrite ==
    \/ \E data \in ResultInputs, sample_id \in SampleIds :
           LogAll(data, sample_id)
    \/ \E data \in ResultInputs, sample_id \in SampleIds :
           StoreAll(data, sample_id)
    \/ \E m \in Registered, sample_id \in SampleIds :
           \E data \in InputPayloads(heap[m].name) :
               LogData(m, data, sample_id)
    \/ \E m \in Registered, sample_id \in SampleIds :
           \E data \in InputPayloads(heap[m].name) :
               StoreData(m, data, sample_id)

SpecWrite == Init /\ [][NextWrite]_vars

----------------------------------------------------------------------------
(* Properties of logging and storing, under SpecWrite. *)

\* this step is a call of one of the operations named
Calls(names) == calls' = calls + 1 /\ op'.name \in names

\* nothing was written on channel or table c
Untouched(c) == logs'[c] = logs[c] /\ tables'[c] = tables[c]

SameFiles == DOMAIN logs' = DOMAIN logs /\ DOMAIN tables' = DOMAIN tables

\* C5: for every name in the results given to log_all or store_all whose
\* payload is None or empty, no log record is appended and no history row
\* is inserted for that name; the same holds for log_data and store_data
\* called directly with None or empty data.
C5_EmptyPayloadsWriteNothing ==
    [][ /\ Calls({"log_all", "store_all"}) =>
              /\ SameFiles
              /\ \A i \in 1..Len(op'.data) :
                     ~NonEmpty(op'.data[i].v) =>
                         \A c \in DOMAIN logs :
                             c = op'.data[i].k => Untouched(c)
        /\ (Calls({"log_data", "store_data"}) /\ ~NonEmpty(op'.data)) =>
              /\ SameFiles
              /\ \A c \in DOMAIN logs : Untouched(c)
      ]_vars

\* store_all was given None for one registered name and records for
\* another: only the second one's table got rows
C5_Witness ==
    /\ op.name = "store_all"
    /\ \E i, j \in 1..Len(op.data) :
           /\ op.data[i].k \in ClassNames
           /\ op.data[i].v = NonePayload
           /\ tables[op.data[i].k] = <<>>
           /\ logs[op.data[i].k] = <<>>
           /\ op.data[j].k \in ClassNames
           /\ NonEmpty(op.data[j].v)
           /\ Len(tables[op.data[j].k]) = 1

\* the entry's name is in the name index of the caller's registry
InNameIndex(e) == e.k \in DictKeys(regs[registry].metrics)

\* C6: log_all and store_all skip every entry of results whose name is not
\* in the registry's name index, without raising and without writing
\* anything for it, and still process the remaining entries: each
\* remaining non-empty entry gets its record (log_all) or its rows
\* (store_all), and the outcome is that of the call without the skipped
\* entries.
C6_UnregisteredNamesSkipped ==
    [][ Calls({"log_all", "store_all"}) =>
          LET data == op'.data
              kept == SelectSeq(data, InNameIndex)
              without == IF op'.name = "log_all"
                         THEN log_all(regs[registry], heap, kept,
                                      op'.sample_id, Now)
                         ELSE store_all(regs[registry], heap, kept,
                                        op'.sample_id, Now)
          IN /\ ~op'.raised
             /\ SameFiles
             /\ logs' = without.logs
             /\ tables' = without.tables
             /\ clock' = without.clock
             /\ \A i \in 1..Len(data) :
                    (InNameIndex(data[i]) /\ NonEmpty(data[i].v)) =>
                        IF op'.name = "log_all"
                        THEN /\ Len(logs'[data[i].k])
                                    = Len(logs[data[i].k]) + 1
                             /\ logs'[data[i].k][Len(logs'[data[i].k])].data
                                    = data[i].v
                        ELSE Len(tables'[data[i].k])
                                 = Len(tables[data[i].k])
                                   + (IF PrimaryKey(data[i].k) = "" THEN 1
                                      ELSE data[i].v.n)
      ]_vars

\* log_all was given a non-empty payload under an unregistered name between
\* two registered ones: it returned, and both registered metrics have their
\* record
C6_Witness ==
    /\ op.name = "log_all"
    /\ ~op.raised
    /\ Len(op.data) = 3
    /\ ~InNameIndex(op.data[2])
    /\ NonEmpty(op.data[2].v)
    /\ Len(logs[op.data[1].k]) = 1
    /\ Len(logs[op.data[3].k]) = 1
    /\ \A c \in DOMAIN logs : c \notin {op.data[1].k, op.data[3].k}
                                  => logs[c] = <<>>

----------------------------------------------------------------------------
(* Specification SpecFault: log_all and store_all when a write fails: a   *)
(* payload json.dumps cannot serialise, a history table init_storage      *)
(* never created.                                                         *)

\* any subset of the history tables has been created
InitFault ==
    LET g == get_registry(<<>>, <<>>, None, 0)
    IN /\ heap = g.heap
       /\ regs = g.regs
       /\ _registry = g.global
       /\ registry = g.ret
       /\ results = <<>>
       /\ trace = <<>>
       /\ errorLog = <<>>
       /\ logs = [c \in ClassNames |-> <<>>]
       /\ tables = [c \in ClassNames |-> <<>>]
       /\ clock = 1
       /\ calls = 0
       /\ schema \in SUBSET ClassNames
       /\ server = <<>>
       /\ conns = 0
       /\ session_state = SessionInit
       /\ op = Call("get_registry")

\* the names of the results mappings: three registered classes
FaultNames == SubSeq(MetricClasses, 1, 3)

\* a payload with data for the class, and the same with a tuple among its
\* keys
FaultPayloads(name) ==
    {[kind |-> "dict", keys |-> PayloadKeys(name), n |-> 1],
     [kind |-> "dict", keys |-> PayloadKeys(name) \cup {TupleKey}, n |-> 1]}

RECURSIVE FaultMappingsOver(_)
\* the mappings whose keys are some of names, in that order
FaultMappingsOver(names) ==
    IF names = <<>> THEN {<<>>}
    ELSE LET rest == FaultMappingsOver(Tail(names))
         IN rest \cup {<<[k |-> Head(names), v |-> d]>> \o r :
                          d \in FaultPayloads(Head(names)), r \in rest}

FaultInputs == FaultMappingsOver(FaultNames)

NextFault ==
    \/ \E data \in FaultInputs, sample_id \in {SidNone, SidStr(1)} :
           LogAll(data, sample_id)
    \/ \E data \in FaultInputs, sample_id \in {SidNone, SidStr(1)} :
           StoreAll(data, sample_id)

SpecFault == InitFault /\ [][NextFault]_vars

\* the rows or records s are still there, in place, in t
IsPrefix(s, t) == Len(s) <= Len(t) /\ SubSeq(t, 1, Len(s)) = s

\* the write of entry e by the call named name raises
WriteRaises(name, e, sample_id) ==
    /\ InNameIndex(e)
    /\ Truthy(e.v)
    /\ IF name = "log_all"
       THEN log_data(heap, get_metric(regs[registry], e.k), e.v,
                     sample_id, Now).raised
       ELSE store_data(heap, get_metric(regs[registry], e.k), e.v,
                       sample_id, Now).raised

\* C12: a storage or logging error is not masked: if a metric's
\* store_data (log_data) raises during store_all (log_all), the exception
\* propagates to the caller, the entries of results that come after it
\* are not stored (logged), and the rows (records) already written for
\* earlier entries remain.
C12_WriteErrorsPropagate ==
    [][ Calls({"log_all", "store_all"}) =>
          LET data == op'.data
              bad == {i \in 1..Len(data) :
                         WriteRaises(op'.name, data[i], op'.sample_id)}
              first == CHOOSE i \in bad : \A j \in bad : i <= j
          IN /\ op'.raised <=> bad # {}
             /\ \A c \in DOMAIN logs :
                    IsPrefix(logs[c], logs'[c])
                    /\ IsPrefix(tables[c], tables'[c])
             /\ bad # {} =>
                  \A i \in 1..Len(data) :
                      /\ i > first => Untouched(data[i].k)
                      /\ i < first =>
                            IF op'.name = "log_all"
                            THEN /\ Len(logs'[data[i].k])
                                        = Len(logs[data[i].k]) + 1
                                 /\ logs'[data[i].k][Len(logs'[data[i].k])].data
                                        = data[i].v
                            ELSE Len(tables'[data[i].k])
                                     = Len(tables[data[i].k]) + 1
      ]_vars

\* store_all over three metrics, the second one's table missing: the
\* call raised, the first metric's row is there, the third has none
\* although its table exists
C12_Witness ==
    /\ op.name = "store_all"
    /\ op.raised
    /\ Len(op.data) = 3
    /\ op.data[1].k \in schema
    /\ op.data[2].k \notin schema
    /\ op.data[3].k \in schema
    /\ Len(tables[op.data[1].k]) = 1
    /\ tables[op.data[2].k] = <<>>
    /\ tables[op.data[3].k] = <<>>

----------------------------------------------------------------------------
(* Specification SpecStore: init_storage and repeated store_data calls on *)
(* the discovered registry, starting from an empty store.                 *)

InitStore ==
    LET g == get_registry(<<>>, <<>>, None, 0)
    IN /\ heap = g.heap
       /\ regs = g.regs
       /\ _registry = g.global
       /\ registry = g.ret
       /\ results = <<>>
       /\ trace = <<>>
       /\ errorLog = <<>>
       /\ logs = [c \in ClassNames |-> <<>>]
       /\ tables = [c \in ClassNames |-> <<>>]
       /\ clock = 1
       /\ calls = 0
       /\ schema = {}
       /\ server = <<>>
       /\ conns = 0
       /\ session_state = SessionInit
       /\ op = Call("get_registry")

\* metric.init_storage(DB_PATH)
InitStorage(m) ==
    /\ LET st == init_storage(heap[m].name, Now)
       IN /\ schema' = st.schema
          /\ conns' = st.conns
          /\ tables' = st.tables
          /\ logs' = st.logs
          /\ clock' = st.clock
          /\ op' = [name |-> "init_storage", raised |-> st.raised, m |-> m]
    /\ UNCHANGED <<session_state,
                   heap, regs, _registry, registry, results, trace, errorLog,
                   calls, server>>

\* metric.store_data(DB_PATH, data, sample_id), one of at most MaxStores
Store(m, data, sample_id) ==
    /\ calls < MaxStores
    /\ calls' = calls + 1
    /\ LET st == store_data(heap, m, data, sample_id, Now)
       IN /\ schema' = st.schema
          /\ conns' = st.conns
          /\ tables' = st.tables
          /\ logs' = st.logs
          /\ clock' = st.clock
          /\ op' = [WriteCall("store_data", m, data, sample_id)
                       EXCEPT !.raised = st.raised]
    /\ UNCHANGED <<session_state,
                   heap, regs, _registry, registry, results, trace, errorLog,
                   server>>

NextStore ==
    \/ \E m \in Registered : InitStorage(m)
    \/ \E m \in Registered, sample_id \in SampleIds :
           \E data \in PayloadsOf(heap[m].name) : Store(m, data, sample_id)

SpecStore == InitStore /\ [][NextStore]_vars

\* the class of the metric the call in op' was made on
Callee == heap[op'.m].name

\* the rows a store_data call puts into its class's table: one per record
\* of a list-shaped payload, one for a scalar-shaped one
RowsExpected(cls, data) == IF PrimaryKey(cls) = "" THEN 1 ELSE data.n

\* the rows this step added to table c
Added(c) == SubSeq(tables'[c], Len(tables[c]) + 1, Len(tables'[c]))

\* C14: table creation is idempotent: running init_storage for a metric
\* any number of times against the same store never errors and leaves all
\* rows already present in the metric's history table unchanged.
C14_InitStorageIdempotent ==
    [][ op'.name = "init_storage" =>
           /\ ~op'.raised
           /\ tables' = tables
           /\ schema' = schema \cup {Callee}
      ]_vars

\* init_storage ran on a metric whose table already held rows
C14_Witness ==
    /\ op.name = "init_storage"
    /\ ~op.raised
    /\ Len(tables[heap[op.m].name]) >= 1
    /\ heap[op.m].name \in schema

\* C15: store_data on a list-shaped metric with a payload of n records
\* inserts exactly n rows into that metric's own history table and no row
\* into any other table, and every inserted row carries the sample_id
\* that was passed in.
C15_ListPayloadStoresOneRowPerRecord ==
    [][ ( /\ calls' = calls + 1
          /\ op'.name = "store_data"
          /\ PrimaryKey(Callee) # ""
          /\ Callee \in schema
          /\ op'.sample_id # SidNone )
        => /\ ~op'.raised
           /\ IsPrefix(tables[Callee], tables'[Callee])
           /\ Len(Added(Callee)) = op'.data.n
           /\ \A c \in DOMAIN tables : c # Callee => tables'[c] = tables[c]
           /\ \A i \in 1..Len(Added(Callee)) :
                  Added(Callee)[i].sample_id = op'.sample_id
      ]_vars

\* C16: store_data on a scalar-shaped metric with a non-empty payload and
\* no sample_id supplied inserts exactly one row into that metric's
\* history table, and the row's sample_id is a non-empty generated
\* fallback identifier.
C16_ScalarPayloadStoresOneRowWithFallback ==
    [][ ( /\ calls' = calls + 1
          /\ op'.name = "store_data"
          /\ PrimaryKey(Callee) = ""
          /\ Callee \in schema
          /\ NonEmpty(op'.data)
          /\ op'.sample_id = SidNone )
        => /\ ~op'.raised
           /\ IsPrefix(tables[Callee], tables'[Callee])
           /\ Len(Added(Callee)) = 1
           /\ \A c \in DOMAIN tables : c # Callee => tables'[c] = tables[c]
           /\ Added(Callee)[1].sample_id.kind = "iso"
           /\ SidTruthy(Added(Callee)[1].sample_id)
           /\ Added(Callee)[1].sample_id.v \in clock..(clock' - 1)
      ]_vars

\* a scalar-shaped metric stored a payload without a sample_id: its one
\* row carries an identifier made from the clock
C16_Witness ==
    /\ op.name = "store_data"
    /\ ~op.raised
    /\ op.sample_id = SidNone
    /\ PrimaryKey(heap[op.m].name) = ""
    /\ Len(tables[heap[op.m].name]) = 1
    /\ tables[heap[op.m].name][1].sample_id.kind = "iso"

\* C17: store_data is not deduplicating: calling it k times with the same
\* non-empty payload and the same sample_id leaves k times the rows of a
\* single call in the metric's history table; an earlier call's rows are
\* never replaced or removed by a later call.
C17_StoreDataDoesNotDeduplicate ==
    [][ ( /\ calls' = calls + 1
          /\ op'.name = "store_data"
          /\ Callee \in schema
          /\ NonEmpty(op'.data) )
        => /\ IsPrefix(tables[Callee], tables'[Callee])
           /\ Len(tables'[Callee])
                  = Len(tables[Callee]) + RowsExpected(Callee, op'.data)
           /\ \A c \in DOMAIN tables : c # Callee => tables'[c] = tables[c]
      ]_vars

\* the same payload was stored twice under the same sample_id: the table
\* holds the rows of both calls
C17_Witness ==
    /\ op.name = "store_data"
    /\ calls = 2
    /\ op.sample_id = SidStr(1)
    /\ NonEmpty(op.data)
    /\ LET rows == tables[heap[op.m].name]
           n == RowsExpected(heap[op.m].name, op.data)
       IN /\ n >= 1
          /\ Len(rows) = 2 * n
          /\ \A i \in 1..Len(rows) : rows[i].sample_id = SidStr(1)

\* this step is a log_data call with non-empty data that appended exactly
\* one record to the calling metric's channel and nothing anywhere else
LoggedOneRecord ==
    /\ ~op'.raised
    /\ Len(logs'[Callee]) = Len(logs[Callee]) + 1
    /\ IsPrefix(logs[Callee], logs'[Callee])
    /\ \A c \in DOMAIN logs : c # Callee => logs'[c] = logs[c]
    /\ tables' = tables

\* the record this step appended to the calling metric's channel
Logged == logs'[Callee][Len(logs'[Callee])]

\* C18, as stated: each log_data call with non-empty data appends exactly
\* one record to the calling metric's own log channel and to no other
\* metric's channel, and the record has exactly the four fields
\* timestamp, metric_name, sample_id and data.
C18_RecordHasMetricNameField ==
    [][ (Calls({"log_data"}) /\ NonEmpty(op'.data)) =>
           /\ LoggedOneRecord
           /\ DOMAIN Logged = {"timestamp", "metric_name", "sample_id", "data"}
      ]_vars

\* C18, amended: each log_data call with non-empty data appends exactly
\* one record to the calling metric's own log channel and to no other
\* metric's channel, and the record has exactly the four fields
\* timestamp, metric, sample_id and data, metric being the metric's name
\* and data the payload.
C18_OneRecordOfFourFields ==
    [][ (Calls({"log_data"}) /\ NonEmpty(op'.data)) =>
           /\ LoggedOneRecord
           /\ DOMAIN Logged = {"timestamp", "metric", "sample_id", "data"}
           /\ Logged.metric = Callee
           /\ Logged.data = op'.data
      ]_vars

\* a metric logged a non-empty payload: its channel holds the one record,
\* every other channel is empty
C18_Witness ==
    /\ op.name = "log_data"
    /\ NonEmpty(op.data)
    /\ Len(logs[heap[op.m].name]) = 1
    /\ logs[heap[op.m].name][1].metric = heap[op.m].name
    /\ \A c \in DOMAIN logs : c # heap[op.m].name => logs[c] = <<>>

----------------------------------------------------------------------------
(* Specification SpecDriver: the sampling passes of the drivers,           *)
(* collect_metrics of oracle_monitor_gui_v2.py and the "Collect Now"       *)
(* branch of oracle_monitor_modular.py.                                    *)

\* a pass that hands its sample_id to log_all only: store_all is called
\* without one
collect_metricsLogIdOnly(reg, h, kinds, sample_id, st) ==
    LET given == SidTruthy(sample_id)
        sid == IF given THEN sample_id ELSE IsoFormat(st.clock)
        st1 == IF given THEN st ELSE [st EXCEPT !.clock = @ + 1]
        r == collect_all(reg, h, kinds)
        st2 == log_all(reg, h, r.results, sid, st1)
        st3 == IF st2.raised THEN st2
               ELSE store_all(reg, h, r.results, SidNone, st2)
    IN [results |-> r.results, errors |-> r.errors, trace |-> r.trace,
        sent |-> r.sent, sample_id |-> sid, st |-> st3]

\* collect_metrics(registry, connection, sample_id): the pass's sample_id
\* is the one given or one reading of the clock; then collect_all, log_all
\* and store_all, the last two with that sample_id
collect_metrics(reg, h, kinds, sample_id, st) ==
    LET given == SidTruthy(sample_id)
        sid == IF given THEN sample_id ELSE IsoFormat(st.clock)
        st1 == IF given THEN st ELSE [st EXCEPT !.clock = @ + 1]
        r == collect_all(reg, h, kinds)
        st2 == log_all(reg, h, r.results, sid, st1)
        st3 == IF st2.raised THEN st2
               ELSE store_all(reg, h, r.results, sid, st2)
    IN [results |-> r.results, errors |-> r.errors, trace |-> r.trace,
        sent |-> r.sent, sample_id |-> sid, st |-> st3]

\* results, sample_id = collect_metrics(registry, connection)
CollectMetrics(kinds, sample_id) ==
    /\ calls < MaxPasses
    /\ calls' = calls + 1
    /\ LET p == collect_metrics(regs[registry], heap, kinds, sample_id, Now)
       IN /\ results' = p.results
          /\ trace' = p.trace
          /\ errorLog' = p.errors
          /\ logs' = p.st.logs
          /\ tables' = p.st.tables
          /\ clock' = p.st.clock
          /\ schema' = p.st.schema
          /\ conns' = p.st.conns
          /\ server' = ExecuteAll(server, p.sent)
          /\ op' = [name |-> "collect_metrics", raised |-> p.st.raised,
                    sample_id |-> p.sample_id]
    /\ UNCHANGED <<session_state, heap, regs, _registry, registry>>

\* what a concrete metric's collect does in a pass: the classes catch
\* their query errors and return None, or return their payload
DriverKinds == {"None", "data"}

NextDriver ==
    \E kinds \in [Registered -> DriverKinds] : CollectMetrics(kinds, SidNone)

SpecDriver == Init /\ [][NextDriver]_vars

\* the records this step added to channel c
AddedRecords(c) == SubSeq(logs'[c], Len(logs[c]) + 1, Len(logs'[c]))

\* C19: in one driver pass every write uses the single sample identifier
\* generated for that pass: all log records written by log_all and all
\* history rows written by store_all in that pass carry the same
\* sample_id.
C19_OnePassOneSampleId ==
    [][ op'.name = "collect_metrics" /\ calls' = calls + 1 =>
           /\ ~op'.raised
           /\ op'.sample_id = IsoFormat(clock)
           /\ \A c \in DOMAIN logs :
                  /\ IsPrefix(logs[c], logs'[c])
                  /\ IsPrefix(tables[c], tables'[c])
                  /\ \A i \in 1..Len(AddedRecords(c)) :
                         AddedRecords(c)[i].sample_id = op'.sample_id
                  /\ \A i \in 1..Len(Added(c)) :
                         Added(c)[i].sample_id = op'.sample_id
                  /\ c \in DictKeys(results') =>
                         Len(AddedRecords(c)) = 1 /\ Len(Added(c)) >= 1
                  /\ c \notin DictKeys(results') =>
                         AddedRecords(c) = <<>> /\ Added(c) = <<>>
      ]_vars

\* two passes were made; the second one collected at least two metrics,
\* whose newest record and newest row all carry the pass's sample_id,
\* which differs from the first pass's
C19_Witness ==
    /\ op.name = "collect_metrics"
    /\ calls = 2
    /\ Len(results) >= 2
    /\ \A i \in 1..Len(results) :
           LET c == results[i].k
           IN /\ Len(logs[c]) = 2
              /\ logs[c][2].sample_id = op.sample_id
              /\ logs[c][1].sample_id # op.sample_id
              /\ tables[c][Len(tables[c])].sample_id = op.sample_id

----------------------------------------------------------------------------
(* Specification SpecReadOnly: the calls of the core in any order,        *)
(* collect_all, log_all and store_all of the collected results, and       *)
(* init_storage.                                                          *)

\* the outcomes of one pass in which every collect ends the same way
UniformKinds == {[m \in Registered |-> kind] : kind \in OutcomeKinds}

NextReadOnly ==
    \/ \E kinds \in UniformKinds : CollectAll(kinds)
    \/ \E sample_id \in SampleIds : LogAll(results, sample_id)
    \/ \E sample_id \in SampleIds : StoreAll(results, sample_id)
    \/ \E m \in Registered : InitStorage(m)

SpecReadOnly == Init /\ [][NextReadOnly]_vars

\* C20: the core is read-only towards the monitored system: no sequence
\* of collect_all, log_all, store_all and init_storage calls changes the
\* monitored database's state, because every statement a metric sends
\* over the shared connection is a query.
C20_MonitoredSystemUnchanged ==
    /\ server = <<>>
    /\ Collected => \A i \in 1..Len(op.sent) : IsQuery(op.sent[i])

\* rows were stored, then another collect_all sent the statements of all
\* metrics, and the monitored database is as it was
C20_Witness ==
    /\ Collected
    /\ Len(op.sent) >= 2 * NumClasses
    /\ \E c \in DOMAIN tables : tables[c] # <<>>
    /\ server = <<>>

----------------------------------------------------------------------------
(* The concrete collect methods, run against a backend that may fail.      *)

\* how many collect calls one behaviour of SpecCollect makes
MaxCollects == 2

AllClassNames == {AllClasses[i] : i \in 1..Len(AllClasses)}

\* the classes whose collect looks statistic ids up with _get_statistic_id
UsesStatistics == {"SessionOverviewMetric", "TopSessionsMetric"}

\* what may go wrong on the Oracle connection during one collect: nothing,
\* connection.cursor() raises, a _get_statistic_id execute raises, a
\* statistic name is not in v$statname, the main execute raises, fetching
\* raises, the main query yields no row
BackendFaults ==
    {"cursor", "stat_lookup", "stat_missing", "execute", "fetch", "no_row"}

\* what may go wrong in HostMetricsMetric.collect, which never touches the
\* connection: psutil is not installed, a psutil call raises
HostFaults == {"import", "psutil"}

\* the faults that can occur in the collect of class cls
FaultsOf(cls) ==
    IF cls = "HostMetricsMetric" THEN {"none"} \cup HostFaults
    ELSE {"none"} \cup
         (IF cls \in UsesStatistics THEN BackendFaults
          ELSE BackendFaults \ {"stat_lookup", "stat_missing"})

\* <Class>.collect(connection) under the given fault: whether an exception
\* leaves the method, the value returned, and the number of lines
\* self.logger.error wrote
collect(cls, fault) ==
    LET Caught == [raised |-> FALSE, data |-> NonePayload, logged |-> 1]
        Silent == [raised |-> FALSE, data |-> NonePayload, logged |-> 0]
        Escapes == [raised |-> TRUE, data |-> NonePayload, logged |-> 0]
        Returns(n) == [raised |-> FALSE,
                       data |-> [kind |-> "dict", keys |-> PayloadKeys(cls),
                                 n |-> n],
                       logged |-> 0]
    IN CASE cls = "HostMetricsMetric" ->
               \* except ImportError: return None; except Exception: logged
               IF fault = "import" THEN Silent
               ELSE IF fault = "psutil" THEN Caught
               ELSE Returns(1)
         [] cls # "HostMetricsMetric"
              /\ fault \in {"cursor", "execute", "fetch"} ->
               \* except oracledb.Error: self.logger.error(...); return None
               Caught
         [] cls \in UsesStatistics
              /\ fault \in {"stat_lookup", "stat_missing"} ->
               \* _get_statistic_id returns None; "if not all([...]): return
               \* None", with no logger call
               Silent
         [] cls # "HostMetricsMetric" /\ fault = "no_row" ->
               IF cls = "SessionOverviewMetric"
               THEN Silent       \* "if row: ... return None"
               ELSE IF cls = "UndoMetricsMetric"
               THEN Escapes      \* row[0] on None: TypeError, not caught
               ELSE IF cls = "RedoMetricsMetric"
               THEN Returns(1)   \* metrics.get(..., 0): a dict of zeros
               ELSE Returns(0)   \* the list or mapping of records is empty
         [] OTHER -> Returns(1)

----------------------------------------------------------------------------
(* Specification SpecCollect: collect calls on one instance of each of the *)
(* twelve classes, constructed as _auto_discover_metrics constructs them.  *)

InitCollect ==
    /\ heap = [i \in 1..Len(AllClasses) |-> BaseMetricInit(AllClasses[i])]
    /\ regs = <<>>
    /\ _registry = None
    /\ registry = None
    /\ results = <<>>
    /\ trace = <<>>
    /\ errorLog = <<>>
    /\ logs = [c \in AllClassNames |-> <<>>]
    /\ tables = [c \in AllClassNames |-> <<>>]
    /\ clock = 1
    /\ calls = 0
    /\ schema = {}
    /\ server = <<>>
    /\ conns = 0
    /\ session_state = SessionInit
    /\ op = Call("construct")

\* the line self.logger.error writes into the metric's own channel
Diagnostic(cls) == [level |-> "ERROR", metric |-> cls]

\* data = metric.collect(connection), on heap object m
Collect(m, fault) ==
    /\ calls < MaxCollects
    /\ calls' = calls + 1
    /\ LET cls == heap[m].name
           r == collect(cls, fault)
       IN /\ logs' = [logs EXCEPT ![cls] =
                         IF r.logged = 1 THEN Append(@, Diagnostic(cls))
                         ELSE @]
          /\ server' = IF fault = "cursor" \/ cls = "HostMetricsMetric"
                       THEN server
                       ELSE ExecuteAll(server, StatementsOf(cls))
          /\ op' = [name |-> "collect", raised |-> r.raised, m |-> m,
                    fault |-> fault, data |-> r.data]
    /\ UNCHANGED <<session_state,
                   heap, regs, _registry, registry, results, trace, errorLog,
                   tables, clock, schema, conns>>

NextCollect ==
    \E m \in 1..Len(heap) : \E fault \in FaultsOf(heap[m].name) :
        Collect(m, fault)

SpecCollect == InitCollect /\ [][NextCollect]_vars

\* C21: for every concrete metric, when a backend operation inside collect
\* fails (cursor creation, statistic-id lookup, query execution, fetching
\* rows, or a query that yields no row), collect returns None without
\* raising and writes a diagnostic entry to the metric's own log channel.
C21_BackendFailureIsLoggedNone ==
    [][ (op'.name = "collect" /\ calls' = calls + 1
           /\ op'.fault \in BackendFaults) =>
            LET cls == heap[op'.m].name
            IN /\ ~op'.raised
               /\ op'.data = NonePayload
               /\ logs'[cls] = Append(logs[cls], Diagnostic(cls))
               /\ \A c \in AllClassNames \ {cls} : logs'[c] = logs[c]
      ]_vars

----------------------------------------------------------------------------
(* Further properties of register, under SpecRegister. *)

\* how many of the metrics ms (objects of heap h) carry the given name
NameCount(ms, h, name) ==
    Cardinality({i \in 1..Len(ms) : h[ms[i]].name = name})

\* C22: register is not idempotent: every register call with a metric of
\* a given name and category adds one entry to the category bucket while
\* the name index keeps one entry for the name, so that after k such calls
\* get_metrics_by_category returns the name k times and get_all_metrics
\* returns it once.
C22_RegisterIsNotIdempotent ==
    /\ [](\A cls \in ClassNames :
             /\ NameCount(get_all_metrics(regs[registry]), heap, cls) <= 1
             /\ NameCount(get_all_metrics(regs[registry]), heap, cls) = 0
                  <=> NameCount(get_metrics_by_category(regs[registry],
                                    CategoryOf(cls)), heap, cls) = 0)
    /\ [][ op'.name = "register" /\ regs' # regs =>
              LET name == heap'[op'.m].name
                  category == heap'[op'.m].category
              IN /\ NameCount(get_metrics_by_category(regs'[registry],
                                  category), heap', name)
                      = NameCount(get_metrics_by_category(regs[registry],
                                      category), heap, name) + 1
                 /\ NameCount(get_all_metrics(regs'[registry]), heap', name)
                      = 1
         ]_vars

\* one name was registered three times, twice with the same instance: its
\* bucket lists it three times, the name index once
C22_Witness ==
    /\ op.name = "register"
    /\ \E m \in 1..Len(heap) :
           LET name == heap[m].name
               bucket == get_metrics_by_category(regs[registry],
                                                 heap[m].category)
           IN /\ NameCount(bucket, heap, name) = 3
              /\ Cardinality({i \in 1..Len(bucket) : bucket[i] = m}) = 2
              /\ NameCount(get_all_metrics(regs[registry]), heap, name) = 1

\* C23: after any sequence of register calls the two indexes describe the
\* same set of metrics: every instance in the name index is in the bucket
\* of its category, and every instance held in a category bucket is the
\* instance get_metric returns for its name.
C23_IndexesAgree ==
    LET reg == regs[registry]
    IN /\ \A i \in 1..Len(reg.metrics) :
              LET m == reg.metrics[i].v
                  bucket == get_metrics_by_category(reg, heap[m].category)
              IN \E j \in 1..Len(bucket) : bucket[j] = m
       /\ \A i \in 1..Len(reg.categories) :
              \A j \in 1..Len(reg.categories[i].v) :
                  LET m == reg.categories[i].v[j]
                  IN get_metric(reg, heap[m].name) = m

----------------------------------------------------------------------------
(* The connections to the history store, under SpecStore. *)

\* C24: every connection to the history store opened by init_storage or by
\* a metric's store_data is closed by the time that call ends, however it
\* ends, so no store connection stays open between calls.
C24_StoreConnectionsClosed == conns = 0

----------------------------------------------------------------------------
(* The shape of the payloads, under SpecCollect. *)

\* what kind of value a class's collect puts under a top-level key of its
\* payload: a scalar, a list (of records, or of numbers for load_avg) or a
\* mapping (ResourceLimitsMetric's limits: resource name -> record)
ValueKind(cls, key) ==
    CASE cls = "ResourceLimitsMetric" /\ key = "limits" -> "mapping"
      [] cls = "HostMetricsMetric" /\ key = "load_avg" -> "list"
      [] PrimaryKey(cls) # "" /\ key = PrimaryKey(cls) -> "list"
      [] OTHER -> "scalar"

\* {<primary_key>: [...], "count": N}
ListShaped(cls, data) ==
    \E key \in data.keys :
        /\ data.keys = {key, "count"}
        /\ key # "count"
        /\ ValueKind(cls, key) = "list"
        /\ ValueKind(cls, "count") = "scalar"

\* a flat mapping whose values are all scalars
ScalarShaped(cls, data) ==
    \A key \in data.keys : ValueKind(cls, key) = "scalar"

\* C25: for every concrete metric, any non-None result of collect has one
\* of exactly two shapes: list-shaped, a mapping with one primary key
\* holding a list of records plus a count equal to the length of that
\* list, or scalar-shaped, a flat mapping whose values are all scalars.
C25_PayloadHasOneOfTwoShapes ==
    (op.name = "collect" /\ ~op.raised /\ op.data.kind # "None") =>
        LET cls == heap[op.m].name
        IN ListShaped(cls, op.data) \/ ScalarShaped(cls, op.data)

----------------------------------------------------------------------------
(* Records and table rows: what each class's _store_data_impl writes.      *)

\* the fields of one record of a class's payload: the keys of each dict of
\* the list (or of each value of ResourceLimitsMetric's mapping), or of
\* the flat payload itself
RecordFields(cls) ==
    CASE cls = "TopSessionsMetric" ->
            {"sid", "serial", "username", "program", "status",
             "logical_reads_mb", "cpu_seconds", "event", "sql_id",
             "machine", "module"}
      [] cls = "BlockingSessionsMetric" ->
            {"blocking_sid", "blocking_serial", "blocking_user",
             "blocking_program", "blocked_sid", "blocked_serial",
             "blocked_user", "blocked_program", "wait_event",
             "wait_seconds"}
      [] cls = "TablespaceUsageMetric" ->
            {"tablespace", "type", "status", "used_mb", "allocated_mb",
             "max_mb", "free_mb", "pct_used", "autoextend_headroom_mb",
             "files", "autoextend_files", "autoextend_capable"}
      [] cls = "WaitEventsMetric" ->
            {"event", "total_waits", "total_wait_seconds", "avg_wait_ms"}
      [] cls = "TempUsageMetric" ->
            {"sid", "username", "program", "tablespace", "segtype",
             "used_mb"}
      [] cls = "PlanChurnMetric" ->
            {"sql_id", "plan_hash_value", "executions", "elapsed_seconds",
             "buffer_gets", "disk_reads", "rows_processed",
             "last_active_time"}
      [] cls = "IOSessionsMetric" ->
            {"sid", "username", "program", "status", "sql_id", "read_mb",
             "write_mb"}
      [] cls = "ResourceLimitsMetric" -> {"current", "max", "limit"}
      [] OTHER -> PayloadKeys(cls)

\* the fields the INSERT of _store_data_impl reads with .get(...)
InsertedFields(cls) ==
    IF cls = "HostMetricsMetric" THEN RecordFields(cls) \ {"load_avg"}
    ELSE RecordFields(cls)

\* the column the INSERT binds a field's value to
ColumnOf(cls, field) ==
    IF cls = "ResourceLimitsMetric"
    THEN CASE field = "current" -> "current_utilization"
           [] field = "max" -> "max_utilization"
           [] field = "limit" -> "limit_value"
    ELSE field

\* the columns of the table _get_storage_schema declares: in every class
\* the surrogate id and the columns its INSERT names
Columns(cls) ==
    {"id", "sample_id", "timestamp"}
    \cup {ColumnOf(cls, field) : field \in InsertedFields(cls)}
    \cup (IF cls = "ResourceLimitsMetric" THEN {"resource_name"} ELSE {})

\* the value a record holds under a field; RecordKey is the resource name
\* a ResourceLimitsMetric record is filed under
FieldValue(field) == [of |-> field]

RecordKey == [of |-> "<key>"]

\* the row the INSERT writes for one record, as SELECT * reads it back:
\* column -> value
InsertedRow(cls, sample_id, timestamp) ==
    [column \in Columns(cls) \ {"id"} |->
        CASE column = "sample_id" -> sample_id
          [] column = "timestamp" -> timestamp
          [] column = "resource_name" /\ cls = "ResourceLimitsMetric" ->
                RecordKey
          [] OTHER ->
                FieldValue(CHOOSE field \in InsertedFields(cls) :
                               ColumnOf(cls, field) = column)]

----------------------------------------------------------------------------
(* Specification SpecRoundTrip: store_data calls on one instance of each   *)
(* of the twelve classes, every history table having been created.         *)

InitRoundTrip ==
    /\ heap = [i \in 1..Len(AllClasses) |-> BaseMetricInit(AllClasses[i])]
    /\ regs = <<>>
    /\ _registry = None
    /\ registry = None
    /\ results = <<>>
    /\ trace = <<>>
    /\ errorLog = <<>>
    /\ logs = [c \in AllClassNames |-> <<>>]
    /\ tables = [c \in AllClassNames |-> <<>>]
    /\ clock = 1
    /\ calls = 0
    /\ schema = AllClassNames
    /\ server = <<>>
    /\ conns = 0
    /\ session_state = SessionInit
    /\ op = Call("init_storage")

\* metric.store_data(DB_PATH, data, sample_id) with the one-record payload
\* of the metric's class, then SELECT * of the row it wrote
StoreRecord(m, sample_id) ==
    /\ calls < MaxStores
    /\ calls' = calls + 1
    /\ LET cls == heap[m].name
           data == collect(cls, "none").data
           st == store_data(heap, m, data, sample_id, Now)
           stored == st.tables[cls][Len(st.tables[cls])]
       IN /\ schema' = st.schema
          /\ conns' = st.conns
          /\ tables' = st.tables
          /\ logs' = st.logs
          /\ clock' = st.clock
          /\ op' = [name |-> "store_data", raised |-> st.raised, m |-> m,
                    data |-> data, sample_id |-> sample_id,
                    row |-> InsertedRow(cls, stored.sample_id,
                                        stored.timestamp)]
    /\ UNCHANGED <<session_state,
                   heap, regs, _registry, registry, results, trace, errorLog,
                   server>>

NextRoundTrip ==
    \E m \in 1..Len(heap), sample_id \in SampleIds : StoreRecord(m, sample_id)

SpecRoundTrip == InitRoundTrip /\ [][NextRoundTrip]_vars

\* C26: for every concrete metric, each field of a collected record has a
\* same-named column in the metric's declared table and is written to it
\* by store_data, so reading a stored row back reproduces every field
\* value of the payload (no field of the payload is dropped).
C26_StoredRowReproducesRecord ==
    op.name = "store_data" =>
        LET cls == heap[op.m].name
        IN \A field \in RecordFields(cls) :
               /\ field \in Columns(cls)
               /\ field \in DOMAIN op.row
               /\ op.row[field] = FieldValue(field)

----------------------------------------------------------------------------
(* Specification SpecToggle: toggles between the steps of a sampling pass  *)
(* on the discovered registry: collect_all (possibly repeated), then       *)
(* log_all and store_all of its results under the pass's sample_id.        *)

NextToggle ==
    \/ \E m \in Registered, value \in BOOLEAN : SetEnabled(m, value)
    \/ \E kinds \in UniformKinds : calls = 0 /\ CollectAll(kinds)
    \/ LogAll(results, SidStr(1))
    \/ StoreAll(results, SidStr(1))

SpecToggle == Init /\ [][NextToggle]_vars

\* metric m is one of the sequence ms
InSeq(ms, m) == \E i \in 1..Len(ms) : ms[i] = m

\* C27: toggling a metric's enabled flag changes nothing but that flag:
\* the name index and every category bucket are unchanged, and get_metric,
\* get_all_metrics and get_metrics_by_category still return the metric;
\* only whether the next collect_all visits it changes.
C27_ToggleChangesOnlyTheFlag ==
    [][ heap' # heap =>
          \E m \in Registered :
              LET reg == regs'[registry]
              IN /\ heap' = [heap EXCEPT ![m].enabled = ~heap[m].enabled]
                 /\ regs' = regs
                 /\ get_metric(reg, heap'[m].name) = m
                 /\ InSeq(get_all_metrics(reg), m)
                 /\ InSeq(get_metrics_by_category(reg, heap'[m].category), m)
                 /\ InSeq(get_enabled_metrics(reg, heap'), m)
                      <=> heap'[m].enabled
                 /\ \A other \in Registered \ {m} :
                        InSeq(get_enabled_metrics(reg, heap'), other)
                            <=> InSeq(get_enabled_metrics(regs[registry],
                                                          heap), other)
                 /\ UNCHANGED <<_registry, registry, results, trace,
                                errorLog, logs, tables, clock, calls, schema,
                                server, conns, session_state>>
      ]_vars

\* a metric that was collected and stored has been disabled since: the
\* getters still return it, and the results and rows are as they were
C27_Witness ==
    /\ op.name = "set_enabled"
    /\ \E m \in Registered :
           /\ ~heap[m].enabled
           /\ get_metric(regs[registry], heap[m].name) = m
           /\ InSeq(get_metrics_by_category(regs[registry],
                                            heap[m].category), m)
           /\ ~InSeq(get_enabled_metrics(regs[registry], heap), m)
           /\ DictHas(results, heap[m].name)
           /\ tables[heap[m].name] # <<>>

\* C28: log_all and store_all do not consult the enabled flag: a
\* registered metric that is disabled after collect_all returned but
\* before log_all/store_all run still has its non-empty payload from
\* results logged and stored.
C28_WritesIgnoreEnabledFlag ==
    [][ Calls({"log_all", "store_all"}) =>
          \A m \in Registered :
              LET name == heap[m].name
                  payload == DictGet(op'.data, name, NonePayload)
              IN (~heap[m].enabled /\ DictHas(op'.data, name)
                    /\ NonEmpty(payload)) =>
                     /\ ~op'.raised
                     /\ op'.name = "log_all" =>
                          /\ Len(logs'[name]) = Len(logs[name]) + 1
                          /\ logs'[name][Len(logs'[name])].data = payload
                          /\ logs'[name][Len(logs'[name])].sample_id
                               = op'.sample_id
                     /\ op'.name = "store_all" =>
                          /\ Len(tables'[name])
                               = Len(tables[name]) + RowsExpected(name, payload)
                          /\ RowsExpected(name, payload) >= 1
      ]_vars

\* a metric was disabled after the collect_all that returned its payload,
\* and the log_all that followed wrote the payload to its channel
C28_Witness ==
    /\ op.name = "log_all"
    /\ \E m \in Registered :
           /\ ~heap[m].enabled
           /\ DictHas(results, heap[m].name)
           /\ DictHas(op.data, heap[m].name)
           /\ Len(logs[heap[m].name]) = 1
           /\ logs[heap[m].name][1].data = DictGet(results, heap[m].name,
                                                   NonePayload)

----------------------------------------------------------------------------
(* Specification SpecModular: script runs of oracle_monitor_modular.main   *)
(* once a connection is held.  Each run is caused by one widget event: the *)
(* category selectbox, one metric checkbox of the previous render, or the  *)
(* "Collect Now" button.                                                   *)

\* the entries of the category selectbox
Views(reg) == {"All"} \cup DictKeys(reg.categories)

\* metrics_to_show of the modular main
metrics_to_show(reg, h, selected_category) ==
    IF selected_category = "All" THEN get_enabled_metrics(reg, h)
    ELSE get_metrics_by_category(reg, selected_category)

\* the loop "metric.enabled = st.sidebar.checkbox(..., value=metric.enabled)"
\* over the metrics shown: a checkbox returns its metric's flag, flipped if
\* it is the one the user clicked
DisplayToggles(shown, h, clicked) ==
    [m \in DOMAIN h |->
        IF InSeq(shown, m) /\ m = clicked
        THEN [h[m] EXCEPT !.enabled = ~@]
        ELSE h[m]]

\* one run of main(): the metric toggles of the selected category, then,
\* if "Collect Now" was pressed, one sampling pass over the enabled metrics
Rerun(selected_category, clicked, pressed) ==
    /\ registry # None
    /\ pressed => calls < MaxCalls
    /\ LET reg == regs[registry]
           shown == metrics_to_show(reg, heap, selected_category)
           h == DisplayToggles(shown, heap, clicked)
           p == collect_metrics(reg, h, [m \in Registered |-> "data"],
                                SidNone, Now)
       IN /\ heap' = h
          /\ op' = [name |-> "render", raised |-> FALSE,
                    view |-> selected_category,
                    offered |-> {shown[i] : i \in 1..Len(shown)}]
          /\ IF pressed
             THEN /\ calls' = calls + 1
                  /\ results' = p.results
                  /\ trace' = p.trace
                  /\ errorLog' = p.errors
                  /\ logs' = p.st.logs
                  /\ tables' = p.st.tables
                  /\ clock' = p.st.clock
                  /\ schema' = p.st.schema
                  /\ conns' = p.st.conns
                  /\ server' = ExecuteAll(server, p.sent)
             ELSE UNCHANGED <<calls, results, trace, errorLog, logs, tables,
                              clock, schema, conns, server>>
    /\ UNCHANGED <<session_state, regs, _registry, registry>>

\* the user picks an entry of the category selectbox (the first run shows
\* "All")
SelectCategory(selected_category) ==
    /\ selected_category \in Views(regs[registry])
    /\ Rerun(selected_category, None, FALSE)

\* the user clicks a checkbox the previous render offered
ClickCheckbox(m) ==
    /\ op.name = "render"
    /\ m \in op.offered
    /\ Rerun(op.view, m, FALSE)

\* the user presses "Collect Now"
CollectNow ==
    /\ op.name = "render"
    /\ Rerun(op.view, None, TRUE)

NextModular ==
    \/ \E selected_category \in Views(regs[registry]) :
           SelectCategory(selected_category)
    \/ \E m \in Registered : ClickCheckbox(m)
    \/ CollectNow

SpecModular == Init /\ [][NextModular]_vars

\* C29: in the modular dashboard every registered metric is offered its
\* enable/disable toggle in the 'All' category view whatever its current
\* enabled state, so after any sequence of renders and toggles a disabled
\* metric can be enabled again from that view.
C29_AllViewOffersEveryMetric ==
    (op.name = "render" /\ op.view = "All") => op.offered = Registered

----------------------------------------------------------------------------
(* Specification SpecV2: script runs of oracle_monitor_gui_v2.main.  Each  *)
(* run is caused by one event: a submit of the connection form, a sidebar  *)
(* button, a metric checkbox, or a rerun without any widget event.  The    *)
(* initialize_storage(registry) at the head of a run creates no table that *)
(* Init has not created already.                                           *)

\* the connection object connect_database returns
Connection == 1

\* the events of the V2 sidebar; "none" is a run no widget caused
Events ==
    {"connect", "connect_failed", "disconnect", "start", "stop",
     "collect_now", "none"}

\* whether the event's widget is drawn and enabled in the session state ss:
\* Disconnect is drawn only while a connection is held, Start is disabled
\* while monitoring is active, Stop while it is not, Collect Now while
\* there is no connection
Usable(ss, event) ==
    CASE event = "disconnect" -> ss.connection # None
      [] event = "start" -> ~ss.monitoring_active
      [] event = "stop" -> ss.monitoring_active
      [] event = "collect_now" -> ss.connection # None
      [] OTHER -> TRUE

\* the events on which sidebar_configuration calls st.rerun(), which ends
\* the run at once
Reruns(ss, event) ==
    \/ event \in {"connect", "disconnect", "stop"}
    \/ event = "start" /\ ss.connection # None

\* the session state sidebar_configuration() leaves under the given event
sidebar_configuration(ss, event) ==
    CASE event = "connect" -> [ss EXCEPT !.connection = Connection]
      [] event = "disconnect" -> [ss EXCEPT !.connection = None]
      [] event = "start" /\ ss.connection # None ->
            [ss EXCEPT !.monitoring_active = TRUE]
      [] event = "stop" -> [ss EXCEPT !.monitoring_active = FALSE]
      [] event = "collect_now" -> [ss EXCEPT !.force_collect = TRUE]
      [] OTHER -> ss

\* the auto-refresh branch of main(): monitoring with a connection, and the
\* refresh interval has passed
AutoRefresh(ss, due) ==
    ss.monitoring_active /\ ss.connection # None /\ due

\* the manual branch of main(), reached when the auto-refresh branch did
\* not rerun
ManualCollect(ss) == ss.force_collect /\ ss.connection # None

\* one run of main() under the given event; clicked is the metric checkbox
\* the user clicked (None if none), due whether the refresh interval has
\* passed, kinds what the enabled metrics' collects do if the run samples
V2Run(event, clicked, due, kinds) ==
    /\ registry # None
    /\ Usable(session_state, event)
    /\ clicked # None => event = "none"
    /\ LET reg == regs[registry]
           ss == sidebar_configuration(session_state, event)
           ended == Reruns(session_state, event)
           h == IF ended THEN heap
                ELSE DisplayToggles(get_all_metrics(reg), heap, clicked)
           auto == ~ended /\ AutoRefresh(ss, due)
           manual == ~ended /\ ~auto /\ ManualCollect(ss)
           p == collect_metrics(reg, h, kinds, SidNone, Now)
       IN /\ (auto \/ manual) => calls < MaxCalls
          /\ heap' = h
          /\ session_state' =
                 IF manual THEN [ss EXCEPT !.force_collect = FALSE] ELSE ss
          /\ op' = [name |-> "main", raised |-> FALSE, event |-> event,
                    sampled |-> auto \/ manual]
          /\ IF auto \/ manual
             THEN /\ calls' = calls + 1
                  /\ results' = p.results
                  /\ trace' = p.trace
                  /\ errorLog' = p.errors
                  /\ logs' = p.st.logs
                  /\ tables' = p.st.tables
                  /\ clock' = p.st.clock
                  /\ schema' = p.st.schema
                  /\ conns' = p.st.conns
                  /\ server' = ExecuteAll(server, p.sent)
             ELSE UNCHANGED <<calls, results, trace, errorLog, logs, tables,
                              clock, schema, conns, server>>
    /\ UNCHANGED <<regs, _registry, registry>>

NextV2 ==
    \E event \in Events, clicked \in Registered \cup {None},
       due \in BOOLEAN, kinds \in UniformKinds :
        V2Run(event, clicked, due, kinds)

SpecV2 == Init /\ [][NextV2]_vars

\* C30: in the V2 dashboard, over any sequence of connect, disconnect,
\* start, stop and collect-now actions, monitoring is active only while a
\* database connection is held: in every reachable state
\* monitoring_active implies that the session connection is present.
C30_MonitoringImpliesConnection ==
    session_state.monitoring_active => session_state.connection # None

====
